---- MODULE Spec2Model ----
(***************************************************************************)
(* Model of the weather ETL utility: main.py (locations -> fetch ->        *)
(* transform -> assemble -> parquet snapshot -> MERGE upsert) and the      *)
(* crontab driver script that runs the extract and load containers.        *)
(***************************************************************************)
EXTENDS Integers, Sequences, FiniteSets, TLC

VARIABLES
    pc,             \* position of main.py / of the caller of upsert_to_postgres
    snapshot_time,  \* os.environ.get("SNAPSHOT_TIME")
    locations,      \* get_locations()
    start_time,     \* start_time passed to fetch_weather_data
    end_time,       \* end_time passed to fetch_weather_data
    loc_idx,        \* index of the next location of the for loop (1-based)
    rows,           \* fetch_weather_data's local list "rows"
    requests,       \* the requests.get calls issued so far
    weather_df,     \* the DataFrame returned by get_history_and_forecast
    parquet,        \* contents of DUMP_DIR/weather_data.parquet
    dest,           \* rows of the destination table schema.table
    hasPK,          \* the destination declares a unique key on pk_cols
    staging,        \* the table schema.temp_<table_name>
    txn,            \* uncommitted effect of the MERGE on conn
    runs,           \* number of calls of upsert_to_postgres started
    history,        \* destination contents at the start and after each successful upsert
    driver_pc,      \* position of crontab_etl_script.py
    invoked         \* containers for which subprocess.run was reached

vars == <<pc, snapshot_time, locations, start_time, end_time, loc_idx, rows,
          requests, weather_df, parquet, dest, hasPK, staging, txn, runs,
          history, driver_pc, invoked>>

(***************************** bounds **************************************)
MaxLocs == 2        \* longest locations list
MaxIntervals == 2   \* most intervals in one API response
MaxDest == 2        \* most rows initially in the destination table
MaxBatch == 2       \* most rows of a DataFrame handed to upsert directly
MaxRuns == 2        \* most successive upsert calls with the same DataFrame

(************************** program constants ******************************)
COLUMNS == <<"snapshot_time", "latitude", "longitude", "temperature", "wind_speed">>
PK_COLS == <<"latitude", "longitude", "snapshot_time">>
DEFAULT_END == "nowPlus6h"
ASSEMBLER_START == "nowMinus1h"
ASSEMBLER_END == "nowPlus5d"

Range(s) == {s[i] : i \in DOMAIN s}

(************************ timestamps (pandas) ******************************)
\* An ISO-8601 text is modelled by its fields; suffix is the text after the
\* seconds: "Z", a whole-hour offset such as "+02:00", or "" (no zone
\* designator).
Iso(y, m, d, h, suffix) ==
    [kind |-> "iso", y |-> y, m |-> m, d |-> d, h |-> h, suffix |-> suffix]
Token(t) == [kind |-> "token", token |-> t]
NoneValue == [kind |-> "None"]
EmptyStr == [kind |-> "empty"]

\* Python truthiness of an Optional[str]
Truthy(x) == x.kind \notin {"None", "empty"}

\* days since 1970-01-01 of a proleptic Gregorian date
DaysFromCivil(y, m, d) ==
    LET yy  == IF m <= 2 THEN y - 1 ELSE y
        era == yy \div 400
        yoe == yy - era * 400
        mp  == IF m > 2 THEN m - 3 ELSE m + 9
        doy == (153 * mp + 2) \div 5 + d - 1
        doe == yoe * 365 + yoe \div 4 - yoe \div 100 + doy
    IN  era * 146097 + doe - 719468

CivilFromDays(z0) ==
    LET z   == z0 + 719468
        era == z \div 146097
        doe == z - era * 146097
        yoe == (doe - doe \div 1460 + doe \div 36524 - doe \div 146096) \div 365
        doy == doe - (365 * yoe + yoe \div 4 - yoe \div 100)
        mp  == (5 * doy + 2) \div 153
        d   == doy - (153 * mp + 2) \div 5 + 1
        m   == IF mp < 10 THEN mp + 3 ELSE mp - 9
        y   == yoe + era * 400 + (IF m <= 2 THEN 1 ELSE 0)
    IN  [y |-> y, m |-> m, d |-> d]

\* the hours east of UTC a zone designator stands for
OffsetHours(suffix) ==
    CASE suffix = "+02:00" -> 2
      [] suffix = "-05:00" -> -5
      [] OTHER -> 0

\* pd.to_datetime(text): a Timestamp. ord is the instant in hours since the
\* epoch (for a naive Timestamp, the wall clock read as UTC). A text without
\* designator gives a naive Timestamp; "Z" gives tz UTC, which is written
\* "+00:00"; any other designator is kept as a fixed offset.
to_datetime(s) ==
    [ord |-> DaysFromCivil(s.y, s.m, s.d) * 24 + s.h - OffsetHours(s.suffix),
     tz  |-> IF s.suffix = "" THEN "naive"
             ELSE IF s.suffix = "Z" THEN "+00:00" ELSE s.suffix]

\* Timestamp +/- Timedelta
TimedeltaHours(h) == h
TimedeltaDays(d) == 24 * d
\* faulty variant: the offset is applied with the wrong sign
AddTimedeltaWrongSign(ts, delta) == [ts EXCEPT !.ord = ts.ord - delta]
AddTimedelta(ts, delta) == [ts EXCEPT !.ord = ts.ord + delta]

\* Timestamp.isoformat(): the wall clock in the Timestamp's own zone,
\* followed by its offset; nothing follows a naive Timestamp
isoformat(ts) ==
    LET offset == IF ts.tz = "naive" THEN 0 ELSE OffsetHours(ts.tz)
        wall   == ts.ord + offset
        days   == wall \div 24
        c      == CivilFromDays(days)
    IN  Iso(c.y, c.m, c.d, wall - days * 24,
            IF ts.tz = "naive" THEN "" ELSE ts.tz)

(**************************** input domains ********************************)
Loc1 == [lat |-> 40, lon |-> -74]
Loc2 == [lat |-> 51, lon |-> 7]
LocNoLon == [lat |-> 40]              \* an entry of locations.json without "lon"
Locs == {Loc1, Loc2, LocNoLon}

Time1 == Iso(2024, 11, 22, 10, "Z")
Time2 == Iso(2024, 11, 22, 11, "Z")
Interval(t, temp, wind) ==
    [startTime |-> t, values |-> [temperature |-> temp, windSpeed |-> wind]]
IntervalNoValues == [startTime |-> Time2]    \* an interval without "values"
RawIntervals == {Interval(Time1, 21, 5), Interval(Time2, 22, 6), IntervalNoValues}

T0 == Iso(2024, 1, 10, 0, "Z")        \* the spec's example
T1 == Iso(2024, 2, 25, 0, "")         \* naive, window crosses 29 February
T2 == Iso(2024, 1, 1, 0, "+00:00")    \* look-back crosses the year
T3 == Iso(2024, 1, 10, 0, "+02:00")   \* east of UTC
T4 == Iso(2024, 12, 27, 20, "-05:00") \* west of UTC, window crosses the year in UTC only
SnapshotTimes == {NoneValue, EmptyStr, T0, T1, T2, T3, T4}

SeqsUpTo(S, n) == UNION {[1..k -> S] : k \in 0..n}

(****************************** main.py ************************************)
\* the keys of the dict transform_row returns, in insertion order
TransformRowKeys ==
    <<"latitude", "longitude", "snapshot_time", "temperature", "wind_speed">>

\* line 76: the f-string reads location['lat'] and location['lon'];
\* a missing key is a KeyError
LocationRaises(location) == ~({"lat", "lon"} \subseteq DOMAIN location)

\* lines 42-48: the subscripts of transform_row; a missing key is a KeyError
TransformRowRaises(row, location) ==
    \/ "values" \notin DOMAIN row
    \/ ~({"lat", "lon"} \subseteq DOMAIN location)
    \/ "startTime" \notin DOMAIN row
    \/ ~({"temperature", "windSpeed"} \subseteq DOMAIN row.values)

\* faulty variant: latitude and longitude are taken from the wrong fields
transform_row_swapped(row, location) ==
    LET values == row.values
    IN  [latitude      |-> location.lon,
         longitude     |-> location.lat,
         snapshot_time |-> row.startTime,
         temperature   |-> values.temperature,
         wind_speed    |-> values.windSpeed]

transform_row(row, location) ==
    LET values == row.values
    IN  [latitude      |-> location.lat,
         longitude     |-> location.lon,
         snapshot_time |-> row.startTime,
         temperature   |-> values.temperature,
         wind_speed    |-> values.windSpeed]

\* faulty variant: pd.DataFrame(rows) without columns=, which takes the
\* columns from the dicts' keys and has none when there are no rows
DataFrameNoColumns(rs, cols) ==
    [columns |-> IF rs = <<>> THEN <<>> ELSE TransformRowKeys,
     rows    |-> rs]

\* pd.DataFrame(rows, columns=cols): the named columns, in that order
DataFrame(rs, cols) ==
    [columns |-> cols,
     rows    |-> [i \in DOMAIN rs |-> [c \in Range(cols) |-> rs[i][c]]]]

\* final_df["snapshot_time"] = pd.to_datetime(...); latitude/longitude astype(float)
NormalizeTypes(df) ==
    [df EXCEPT !.rows = [i \in DOMAIN df.rows |->
        [df.rows[i] EXCEPT !.snapshot_time = to_datetime(@)]]]

NoDataFrame == [columns |-> <<>>, rows |-> <<>>, absent |-> TRUE]

(************************* fetch_weather_data ******************************)
\* what one requests.get can come back with
Responses ==
    {[status |-> "ok", intervals |-> ivs] : ivs \in SeqsUpTo(RawIntervals, MaxIntervals)}
    \cup {[status |-> "http_error", intervals |-> <<>>],
          [status |-> "schema_error", intervals |-> <<>>]}

\* faulty variant: the query is built with the fetcher's default end token
RequestDefaultEnd(location, resp) ==
    [location |-> location, startTime |-> start_time, endTime |-> Token(DEFAULT_END),
     status |-> resp.status, intervals |-> resp.intervals]

\* one requests.get call: the query parameters that vary, and what came back
Request(location, resp) ==
    [location |-> location, startTime |-> start_time, endTime |-> end_time,
     status |-> resp.status, intervals |-> resp.intervals]

(************************ upsert_to_postgres *******************************)
\* df.to_sql(..., dtype=dtype_mapping): the staging columns take the
\* destination's types; a timestamp column stores the instant
CoerceRow(r) == [r EXCEPT !.snapshot_time = @.ord]

\* faulty variant: the timestamp column is left out of the join condition
MergeConditionNoTime(t, s, pk_cols) ==
    \A i \in DOMAIN pk_cols : pk_cols[i] = "snapshot_time" \/ t[pk_cols[i]] = s[pk_cols[i]]

\* ON target.k1 = source.k1 AND target.k2 = source.k2 ...
MergeCondition(t, s, pk_cols) == \A i \in DOMAIN pk_cols : t[pk_cols[i]] = s[pk_cols[i]]

\* faulty variant: the filter is inverted and only key columns are assigned
UpdateSetKeysOnly(t, s, columns, pk_cols) ==
    [c \in DOMAIN t |->
        IF c \in Range(columns) \cap Range(pk_cols) THEN s[c] ELSE t[c]]

\* UPDATE SET col = source.col for every df column that is not a key
UpdateSet(t, s, columns, pk_cols) ==
    [c \in DOMAIN t |->
        IF c \in Range(columns) \ Range(pk_cols) THEN s[c] ELSE t[c]]

\* INSERT (df.columns) VALUES (source.col, ...)
InsertValues(s, columns) == [c \in Range(columns) |-> s[c]]

KeyOf(r, pk_cols) == [i \in DOMAIN pk_cols |-> r[pk_cols[i]]]
DistinctKeys(tbl, pk_cols) ==
    \A i, j \in DOMAIN tbl : i # j => KeyOf(tbl[i], pk_cols) # KeyOf(tbl[j], pk_cols)

\* faulty variant: a plain INSERT of every staging row, no match on the keys
MergeQueryInsertOnly(target, source, columns, pk_cols, unique) ==
    LET result == target \o [k \in DOMAIN source |-> [c \in Range(columns) |-> source[k][c]]]
    IN  IF unique /\ \E i, j \in DOMAIN result :
                        /\ i # j
                        /\ \A n \in DOMAIN pk_cols : result[i][pk_cols[n]] = result[j][pk_cols[n]]
        THEN [error |-> "unique_violation", table |-> target]
        ELSE [error |-> "none", table |-> result]

\* The MERGE statement run against target with source = the staging table.
\* The join is taken against the target as it is when the statement starts;
\* a target row matched by two source rows is an error, and so is an insert
\* that breaks a unique key of the target.
MergeQuery(target, source, columns, pk_cols, unique) ==
    LET matching(i) == {j \in DOMAIN source : MergeCondition(target[i], source[j], pk_cols)}
        NotMatched(s) == \A i \in DOMAIN target : ~MergeCondition(target[i], s, pk_cols)
        updated == [i \in DOMAIN target |->
                      IF matching(i) = {} THEN target[i]
                      ELSE UpdateSet(target[i], source[CHOOSE j \in matching(i) : TRUE],
                                     columns, pk_cols)]
        unmatched == SelectSeq(source, NotMatched)
        inserted == [k \in DOMAIN unmatched |-> InsertValues(unmatched[k], columns)]
        result == updated \o inserted
    IN  IF \E i \in DOMAIN target : Cardinality(matching(i)) > 1
        THEN [error |-> "cardinality_violation", table |-> target]
        ELSE IF unique /\ ~DistinctKeys(result, pk_cols)
        THEN [error |-> "unique_violation", table |-> target]
        ELSE [error |-> "none", table |-> result]

NoTable == [exists |-> FALSE, rows |-> <<>>]
NoTxn == [active |-> FALSE, table |-> <<>>]

(**************************** initial states *******************************)
SeedRow ==
    [snapshot_time |-> to_datetime(Time1).ord, latitude |-> Loc1.lat,
     longitude |-> Loc1.lon, temperature |-> 0, wind_speed |-> 0]

\* rows a DataFrame built by get_history_and_forecast can hold
DfRowUniverse ==
    {NormalizeTypes(DataFrame(<<transform_row(iv, loc)>>, COLUMNS)).rows[1] :
        iv \in {r \in RawIntervals : ~TransformRowRaises(r, Loc1)},
        loc \in {l \in Locs : ~LocationRaises(l)}}
\* rows the destination can hold: earlier loads, possibly with other readings
DestUniverse ==
    {CoerceRow(r) : r \in DfRowUniverse}
    \cup {[CoerceRow(r) EXCEPT !.temperature = 0, !.wind_speed = 0] : r \in DfRowUniverse}

\* main.py started with SNAPSHOT_TIME unset or set to the documented example,
\* against a destination that holds one row of an earlier load
Init ==
    /\ pc = "main"
    /\ snapshot_time \in {NoneValue, T0}
    /\ locations \in SeqsUpTo(Locs, MaxLocs)
    /\ start_time = NoneValue
    /\ end_time = NoneValue
    /\ loc_idx = 1
    /\ rows = <<>>
    /\ requests = <<>>
    /\ weather_df = NoDataFrame
    /\ parquet = NoDataFrame
    /\ dest = <<SeedRow>>
    /\ hasPK \in BOOLEAN
    /\ staging = NoTable
    /\ txn = NoTxn
    /\ runs = 0
    /\ history = <<dest>>
    /\ driver_pc = "extract"
    /\ invoked = <<>>

(******************** get_history_and_forecast *****************************)
\* lines 121-132: None, None unless a snapshot time is given
Window(snap) ==
    IF Truthy(snap)
    THEN LET ts == to_datetime(snap)
         IN  [start_time |-> isoformat(AddTimedelta(ts, -TimedeltaHours(1))),
              end_time   |-> isoformat(AddTimedelta(ts, TimedeltaDays(5)))]
    ELSE [start_time |-> NoneValue, end_time |-> NoneValue]

\* Python's  x or "token"
OrDefault(x, token) == IF Truthy(x) THEN x ELSE Token(token)

\* lines 121-138: the window handed to fetch_weather_data
ComputeWindow ==
    /\ pc = "main"
    /\ LET w == Window(snapshot_time)
       IN  /\ start_time' = OrDefault(w.start_time, ASSEMBLER_START)
           /\ end_time' = OrDefault(w.end_time, ASSEMBLER_END)
    /\ pc' = "fetch"
    /\ UNCHANGED <<snapshot_time, locations, loc_idx, rows, requests, weather_df,
                   parquet, dest, hasPK, staging, txn, runs, history,
                   driver_pc, invoked>>

\* lines 95-97: the index of the first interval on which transform_row
\* raises, 0 when it raises on none
FirstRaising(intervals, location) ==
    LET bad == {k \in DOMAIN intervals : TransformRowRaises(intervals[k], location)}
    IN  IF bad = {} THEN 0 ELSE CHOOSE k \in bad : \A j \in bad : k <= j

\* lines 95-97: the rows appended for the first n intervals
AppendedRows(intervals, location, n) ==
    [k \in 1..n |-> transform_row(intervals[k], location)]

\* one iteration of the for loop that runs to its end
FetchLocationOk ==
    /\ pc = "fetch"
    /\ loc_idx <= Len(locations)
    /\ ~LocationRaises(locations[loc_idx])
    /\ \E resp \in Responses :
        /\ resp.status = "ok"
        /\ FirstRaising(resp.intervals, locations[loc_idx]) = 0
        /\ requests' = Append(requests, Request(locations[loc_idx], resp))
        /\ rows' = rows \o AppendedRows(resp.intervals, locations[loc_idx],
                                        Len(resp.intervals))
    /\ loc_idx' = loc_idx + 1
    /\ UNCHANGED <<pc, snapshot_time, locations, start_time, end_time, weather_df,
                   parquet, dest, hasPK, staging, txn, runs, history,
                   driver_pc, invoked>>

\* faulty variant: the exception is swallowed and the loop goes on
FetchLocationSwallow ==
    /\ pc = "fetch"
    /\ loc_idx <= Len(locations)
    /\ \/ /\ LocationRaises(locations[loc_idx])
          /\ UNCHANGED <<requests, rows>>
       \/ /\ ~LocationRaises(locations[loc_idx])
          /\ \E resp \in Responses :
               LET n == FirstRaising(resp.intervals, locations[loc_idx])
               IN  /\ resp.status # "ok" \/ n > 0
                   /\ requests' = Append(requests, Request(locations[loc_idx], resp))
                   /\ rows' = rows \o AppendedRows(resp.intervals, locations[loc_idx],
                                                   IF n > 0 THEN n - 1 ELSE 0)
    /\ loc_idx' = loc_idx + 1
    /\ UNCHANGED <<pc, snapshot_time, locations, start_time, end_time,
                   weather_df, parquet, dest, hasPK, staging, txn, runs, history,
                   driver_pc, invoked>>

\* one iteration that raises, the exception leaving main.py: a KeyError on
\* the location before the request (line 76), raise_for_status or a body
\* without the intervals path after it (lines 89-93), or a KeyError of
\* transform_row on an interval, after the rows of the intervals before it
\* were appended (lines 95-97)
FetchLocationRaise ==
    /\ pc = "fetch"
    /\ loc_idx <= Len(locations)
    /\ \/ /\ LocationRaises(locations[loc_idx])
          /\ UNCHANGED <<requests, rows>>
       \/ /\ ~LocationRaises(locations[loc_idx])
          /\ \E resp \in Responses :
               LET n == FirstRaising(resp.intervals, locations[loc_idx])
               IN  /\ resp.status # "ok" \/ n > 0
                   /\ requests' = Append(requests, Request(locations[loc_idx], resp))
                   /\ rows' = rows \o AppendedRows(resp.intervals, locations[loc_idx],
                                                   IF n > 0 THEN n - 1 ELSE 0)
    /\ pc' = "raised_fetch"
    /\ UNCHANGED <<snapshot_time, locations, start_time, end_time, loc_idx,
                   weather_df, parquet, dest, hasPK, staging, txn, runs, history,
                   driver_pc, invoked>>

\* lines 102, 139-145: the loop is over, build and normalise the DataFrame
AssembleTable ==
    /\ pc = "fetch"
    /\ loc_idx > Len(locations)
    /\ weather_df' = NormalizeTypes(DataFrame(rows, COLUMNS))
    /\ pc' = "write_parquet"
    /\ UNCHANGED <<snapshot_time, locations, start_time, end_time, loc_idx, rows,
                   requests, parquet, dest, hasPK, staging, txn, runs, history,
                   driver_pc, invoked>>

\* line 222: weather_df.to_parquet(...); an OSError leaves main.py
WriteSnapshot ==
    /\ pc = "write_parquet"
    /\ \E ok \in BOOLEAN :
        IF ok THEN /\ parquet' = weather_df
                   /\ pc' = "upsert_reflect"
                   /\ runs' = runs + 1
              ELSE /\ pc' = "raised_parquet"
                   /\ UNCHANGED <<parquet, runs>>
    /\ UNCHANGED <<snapshot_time, locations, start_time, end_time, loc_idx, rows,
                   requests, weather_df, dest, hasPK, staging, txn, history,
                   driver_pc, invoked>>

(************************ upsert_to_postgres steps *************************)
\* lines 164-178: connect and reflect the destination's column types
UpsertReflect ==
    /\ pc = "upsert_reflect"
    /\ pc' = "upsert_stage"
    /\ UNCHANGED <<snapshot_time, locations, start_time, end_time, loc_idx, rows,
                   requests, weather_df, parquet, dest, hasPK, staging, txn, runs,
                   history, driver_pc, invoked>>

\* lines 181-182: df.to_sql(temp table, if_exists='replace')
UpsertStage ==
    /\ pc = "upsert_stage"
    /\ staging' = [exists |-> TRUE,
                   rows |-> [i \in DOMAIN weather_df.rows |-> CoerceRow(weather_df.rows[i])]]
    /\ pc' = "upsert_merge"
    /\ UNCHANGED <<snapshot_time, locations, start_time, end_time, loc_idx, rows,
                   requests, weather_df, parquet, dest, hasPK, txn, runs,
                   history, driver_pc, invoked>>

\* lines 184-208: build and execute the MERGE on conn
UpsertMerge ==
    /\ pc = "upsert_merge"
    /\ LET r == MergeQuery(dest, staging.rows, weather_df.columns, PK_COLS, hasPK)
       IN  IF r.error = "none"
           THEN /\ txn' = [active |-> TRUE, table |-> r.table]
                /\ pc' = "upsert_commit"
           ELSE /\ txn' = NoTxn
                /\ pc' = "raised_merge"
    /\ UNCHANGED <<snapshot_time, locations, start_time, end_time, loc_idx, rows,
                   requests, weather_df, parquet, dest, hasPK, staging, runs,
                   history, driver_pc, invoked>>

\* lines 209-211: conn.commit(), leave the with block, log, return
UpsertCommit ==
    /\ pc = "upsert_commit"
    /\ dest' = txn.table
    /\ txn' = NoTxn
    /\ history' = Append(history, txn.table)
    /\ pc' = "upsert_returned"
    /\ UNCHANGED <<snapshot_time, locations, start_time, end_time, loc_idx, rows,
                   requests, weather_df, parquet, hasPK, staging, runs,
                   driver_pc, invoked>>

\* main.py ends after the upsert
MainExit ==
    /\ pc = "upsert_returned"
    /\ pc' = "done"
    /\ UNCHANGED <<snapshot_time, locations, start_time, end_time, loc_idx, rows,
                   requests, weather_df, parquet, dest, hasPK, staging, txn, runs,
                   history, driver_pc, invoked>>

(*********************** crontab_etl_script.py *****************************)
\* the positional arguments each call site passes
CallSiteArgs(step) ==
    IF step = "extract" THEN <<"extractor-container">> ELSE <<"loader-container">>
NextStep(step) == IF step = "extract" THEN "load" ELSE "done"

\* run_docker_container(container_name, command): binding fewer than two
\* positional arguments raises TypeError before the body runs; inside the
\* body a CalledProcessError is caught and printed
run_docker_container(args) ==
    IF Len(args) # 2 THEN {"TypeError"} ELSE {"returned", "error_printed"}

DriverStep ==
    /\ driver_pc \in {"extract", "load"}
    /\ \E outcome \in run_docker_container(CallSiteArgs(driver_pc)) :
        IF outcome = "TypeError"
        THEN /\ driver_pc' = "crashed"
             /\ UNCHANGED invoked
        ELSE /\ driver_pc' = NextStep(driver_pc)
             /\ invoked' = Append(invoked, CallSiteArgs(driver_pc)[1])
    /\ UNCHANGED <<pc, snapshot_time, locations, start_time, end_time, loc_idx,
                   rows, requests, weather_df, parquet, dest, hasPK, staging, txn,
                   runs, history>>

Next ==
    \/ ComputeWindow
    \/ FetchLocationOk
    \/ FetchLocationRaise
    \/ AssembleTable
    \/ WriteSnapshot
    \/ UpsertReflect
    \/ UpsertStage
    \/ UpsertMerge
    \/ UpsertCommit
    \/ MainExit
    \/ DriverStep

Spec == Init /\ [][Next]_vars

(**************** get_history_and_forecast called on its own ***************)
InitAssemble ==
    /\ pc = "main"
    /\ snapshot_time \in SnapshotTimes
    /\ locations \in SeqsUpTo(Locs, MaxLocs)
    /\ start_time = NoneValue
    /\ end_time = NoneValue
    /\ loc_idx = 1
    /\ rows = <<>>
    /\ requests = <<>>
    /\ weather_df = NoDataFrame
    /\ parquet = NoDataFrame
    /\ dest = <<>>
    /\ hasPK = FALSE
    /\ staging = NoTable
    /\ txn = NoTxn
    /\ runs = 0
    /\ history = <<dest>>
    /\ driver_pc = "extract"
    /\ invoked = <<>>

NextAssemble ==
    \/ ComputeWindow
    \/ FetchLocationOk
    \/ FetchLocationRaise
    \/ AssembleTable

SpecAssemble == InitAssemble /\ [][NextAssemble]_vars

(************* upsert_to_postgres called on its own, repeatedly ************)
InitUpsert ==
    /\ pc = "upsert_reflect"
    /\ snapshot_time = NoneValue
    /\ locations = <<>>
    /\ start_time = NoneValue
    /\ end_time = NoneValue
    /\ loc_idx = 1
    /\ rows = <<>>
    /\ requests = <<>>
    /\ \E rs \in SeqsUpTo(DfRowUniverse, MaxBatch) :
          weather_df = [columns |-> COLUMNS, rows |-> rs]
    /\ parquet = NoDataFrame
    /\ hasPK \in BOOLEAN
    /\ dest \in SeqsUpTo(DestUniverse, MaxDest)
    /\ hasPK => DistinctKeys(dest, PK_COLS)
    /\ staging = NoTable
    /\ txn = NoTxn
    /\ runs = 1
    /\ history = <<dest>>
    /\ driver_pc = "extract"
    /\ invoked = <<>>

\* the caller runs the upsert again with the identical DataFrame
UpsertAgain ==
    /\ pc = "upsert_returned"
    /\ runs < MaxRuns
    /\ runs' = runs + 1
    /\ pc' = "upsert_reflect"
    /\ UNCHANGED <<snapshot_time, locations, start_time, end_time, loc_idx, rows,
                   requests, weather_df, parquet, dest, hasPK, staging, txn,
                   history, driver_pc, invoked>>

NextUpsert ==
    \/ UpsertReflect
    \/ UpsertStage
    \/ UpsertMerge
    \/ UpsertCommit
    \/ UpsertAgain

SpecUpsert == InitUpsert /\ [][NextUpsert]_vars

(***************************** properties **********************************)
\* the staging rows of the DataFrame being upserted
Batch == [i \in DOMAIN weather_df.rows |->
             [weather_df.rows[i] EXCEPT !.snapshot_time = @.ord]]
SameKey(a, b) ==
    /\ a.latitude = b.latitude
    /\ a.longitude = b.longitude
    /\ a.snapshot_time = b.snapshot_time
KeyIn(tbl, b) == \E i \in DOMAIN tbl : SameKey(tbl[i], b)
PairwiseDistinctKeys(tbl) == \A i, j \in DOMAIN tbl : i # j => ~SameKey(tbl[i], tbl[j])
Count(tbl, r) == Cardinality({i \in DOMAIN tbl : tbl[i] = r})
SameRows(a, b) == \A r \in Range(a) \cup Range(b) : Count(a, r) = Count(b, r)
Old == history[1]
New == history[2]

\* C1: after a successful upsert of a batch with pairwise distinct keys,
\* every destination row whose key is in the batch carries the batch row's
\* values, and every batch row whose key was absent is in the destination
\* exactly once.
C1_UpsertMerges ==
    (Len(history) >= 2 /\ PairwiseDistinctKeys(Batch)) =>
        \A k \in DOMAIN Batch :
            IF KeyIn(Old, Batch[k])
            THEN \A i \in DOMAIN Old : SameKey(Old[i], Batch[k]) =>
                    /\ New[i].temperature = Batch[k].temperature
                    /\ New[i].wind_speed = Batch[k].wind_speed
                    /\ SameKey(New[i], Old[i])
            ELSE Count(New, Batch[k]) = 1

C1_Witness ==
    /\ Len(history) >= 2
    /\ PairwiseDistinctKeys(Batch)
    /\ \E k \in DOMAIN Batch : \E i \in DOMAIN Old :
          /\ SameKey(Old[i], Batch[k])
          /\ Old[i].temperature # Batch[k].temperature
          /\ Old[i].wind_speed # Batch[k].wind_speed
          /\ New[i] = Batch[k]
    /\ \E k \in DOMAIN Batch : ~KeyIn(Old, Batch[k]) /\ Count(New, Batch[k]) = 1

\* C2: running the upsert a second time with the identical batch (distinct
\* keys) leaves the destination with the same rows as after the first run,
\* and duplicates no key.
C2_UpsertIdempotent ==
    (Len(history) >= 3 /\ PairwiseDistinctKeys(Batch)) =>
        /\ SameRows(history[2], history[3])
        /\ Len(history[3]) = Len(history[2])
        /\ PairwiseDistinctKeys(Old) => PairwiseDistinctKeys(history[3])

C2_Witness ==
    /\ Len(history) >= 3
    /\ PairwiseDistinctKeys(Batch)
    /\ Len(Old) = 1
    /\ \E k \in DOMAIN Batch : SameKey(Old[1], Batch[k]) /\ Old[1] # Batch[k]
    /\ \E k \in DOMAIN Batch : ~KeyIn(Old, Batch[k])
    /\ history[3] = history[2]

\* C3: a failed request ends the fetch at once: it is the last request made,
\* and nothing reaches the assembled table, the snapshot file or the
\* destination.
C3_FetchAllOrNothing ==
    /\ \A i \in DOMAIN requests : requests[i].status # "ok" =>
          /\ pc = "raised_fetch"
          /\ i = Len(requests)
    /\ pc = "raised_fetch" =>
          /\ weather_df = NoDataFrame
          /\ parquet = NoDataFrame
          /\ dest = Old
          /\ ~staging.exists
          /\ ~txn.active

C3_Witness ==
    /\ pc = "raised_fetch"
    /\ Len(requests) = 2
    /\ requests[1].status = "ok"
    /\ requests[2].status = "http_error"
    /\ rows # <<>>
    /\ weather_df = NoDataFrame
    /\ parquet = NoDataFrame

\* C4: once the upsert has returned, the staging table has been dropped.
C4_StagingDropped ==
    pc \in {"upsert_returned", "done"} => ~staging.exists

\* C5: whenever the driver script has ended, the load container was invoked.
C5_LoadAlwaysAttempted ==
    driver_pc \in {"done", "crashed"} => "loader-container" \in Range(invoked)

\* C6 as stated: with a snapshot time T the fetcher gets T - 1h and T + 5d as
\* absolute timestamps, and for T = 2024-01-10T00:00:00Z these are
\* 2024-01-09T23:00:00Z and 2024-01-15T00:00:00Z.
C6_WindowAsStated ==
    (pc # "main" /\ Truthy(snapshot_time)) =>
        /\ start_time.kind = "iso"
        /\ end_time.kind = "iso"
        /\ to_datetime(start_time).ord = to_datetime(snapshot_time).ord - 1
        /\ to_datetime(end_time).ord = to_datetime(snapshot_time).ord + 120
        /\ snapshot_time = T0 =>
              /\ start_time = Iso(2024, 1, 9, 23, "Z")
              /\ end_time = Iso(2024, 1, 15, 0, "Z")
        /\ \A i \in DOMAIN requests :
              requests[i].startTime = start_time /\ requests[i].endTime = end_time

\* hours on the wall clock an ISO text shows, whatever its zone
WallHours(t) == DaysFromCivil(t.y, t.m, t.d) * 24 + t.h

\* C6 amended: the same instants, written by isoformat in T's own zone: a T
\* ending in Z is written with +00:00 (2024-01-09T23:00:00+00:00 and
\* 2024-01-15T00:00:00+00:00 for T = 2024-01-10T00:00:00Z), a T with a
\* numeric offset keeps that offset, a naive T gets no suffix.
C6_WindowInstants ==
    (pc # "main" /\ Truthy(snapshot_time)) =>
        /\ start_time.kind = "iso"
        /\ end_time.kind = "iso"
        /\ to_datetime(start_time).ord = to_datetime(snapshot_time).ord - 1
        /\ to_datetime(end_time).ord = to_datetime(snapshot_time).ord + 120
        /\ WallHours(start_time) = WallHours(snapshot_time) - 1
        /\ WallHours(end_time) = WallHours(snapshot_time) + 120
        /\ start_time.suffix =
              (IF snapshot_time.suffix = "Z" THEN "+00:00" ELSE snapshot_time.suffix)
        /\ end_time.suffix = start_time.suffix
        /\ snapshot_time = T0 =>
              /\ start_time = Iso(2024, 1, 9, 23, "+00:00")
              /\ end_time = Iso(2024, 1, 15, 0, "+00:00")
        /\ snapshot_time = T1 =>
              /\ start_time = Iso(2024, 2, 24, 23, "")
              /\ end_time = Iso(2024, 3, 1, 0, "")
        /\ snapshot_time = T2 =>
              /\ start_time = Iso(2023, 12, 31, 23, "+00:00")
              /\ end_time = Iso(2024, 1, 6, 0, "+00:00")
        /\ snapshot_time = T3 =>
              /\ start_time = Iso(2024, 1, 9, 23, "+02:00")
              /\ end_time = Iso(2024, 1, 15, 0, "+02:00")
        /\ snapshot_time = T4 =>
              /\ start_time = Iso(2024, 12, 27, 19, "-05:00")
              /\ end_time = Iso(2025, 1, 1, 20, "-05:00")
        /\ \A i \in DOMAIN requests :
              requests[i].startTime = start_time /\ requests[i].endTime = end_time

C6_Witness ==
    /\ snapshot_time = T0
    /\ Len(requests) = 2
    /\ requests[2].startTime = Iso(2024, 1, 9, 23, "+00:00")
    /\ requests[2].endTime = Iso(2024, 1, 15, 0, "+00:00")

\* C7: without a snapshot time (None or empty) every request, one per
\* location in list order, carries the relative tokens nowMinus1h and
\* nowPlus5d.
C7_DefaultWindow ==
    ~Truthy(snapshot_time) =>
        /\ \A i \in DOMAIN requests :
              /\ requests[i].startTime = [kind |-> "token", token |-> "nowMinus1h"]
              /\ requests[i].endTime = [kind |-> "token", token |-> "nowPlus5d"]
              /\ requests[i].endTime.token # DEFAULT_END
              /\ requests[i].location = locations[i]
        /\ weather_df # NoDataFrame => Len(requests) = Len(locations)

C7_Witness ==
    /\ snapshot_time = EmptyStr
    /\ Len(requests) = 2
    /\ requests[1].location # requests[2].location
    /\ requests[2].endTime = [kind |-> "token", token |-> "nowPlus5d"]

\* an interval of the shape {startTime, values: {temperature, windSpeed}}
Shaped(iv) ==
    /\ DOMAIN iv = {"startTime", "values"}
    /\ DOMAIN iv.values = {"temperature", "windSpeed"}
\* the intervals of a response that were handed to transform before one
\* without that shape ended the fetch
ShapedPrefix(ivs) == {k \in DOMAIN ivs : \A j \in 1..k : Shaped(ivs[j])}

\* the records the claims expect for the intervals received so far
RECURSIVE ExpectedRows(_)
ExpectedRows(reqs) ==
    IF reqs = <<>> THEN <<>>
    ELSE LET r == reqs[1]
         IN  [k \in ShapedPrefix(r.intervals) |->
                 [latitude      |-> r.location.lat,
                  longitude     |-> r.location.lon,
                  snapshot_time |-> r.intervals[k].startTime,
                  temperature   |-> r.intervals[k].values.temperature,
                  wind_speed    |-> r.intervals[k].values.windSpeed]]
             \o ExpectedRows(Tail(reqs))

\* C8: every fetched interval is mapped to exactly the five-field record
\* {latitude: lat, longitude: lon, snapshot_time: startTime, temperature,
\* wind_speed}, values passed through, and the locations are left as they were.
C8_TransformMapping ==
    /\ rows = ExpectedRows(requests)
    /\ \A k \in DOMAIN rows :
          DOMAIN rows[k] = {"latitude", "longitude", "snapshot_time",
                            "temperature", "wind_speed"}
    /\ \A i \in DOMAIN requests : requests[i].location = locations[i]

C8_Witness ==
    /\ Len(rows) >= 2
    /\ rows[1].latitude # rows[Len(rows)].latitude
    /\ rows[1].snapshot_time = Time1
    /\ rows[1].temperature = 21
    /\ rows[1].wind_speed = 5

\* C9: the assembled table has exactly the five canonical columns in
\* canonical order, for any number of rows including none, and its rows
\* follow the location list and, within a location, the returned intervals.
C9_TableShape ==
    weather_df # NoDataFrame =>
        LET exp == ExpectedRows(requests)
        IN  /\ weather_df.columns = <<"snapshot_time", "latitude", "longitude",
                                      "temperature", "wind_speed">>
            /\ Len(weather_df.rows) = Len(exp)
            /\ \A k \in DOMAIN weather_df.rows :
                  /\ DOMAIN weather_df.rows[k] = Range(weather_df.columns)
                  /\ weather_df.rows[k].latitude = exp[k].latitude
                  /\ weather_df.rows[k].longitude = exp[k].longitude
                  /\ weather_df.rows[k].snapshot_time = to_datetime(exp[k].snapshot_time)
                  /\ weather_df.rows[k].temperature = exp[k].temperature
                  /\ weather_df.rows[k].wind_speed = exp[k].wind_speed

C9_Witness ==
    /\ weather_df # NoDataFrame
    /\ Len(weather_df.rows) >= 3
    /\ weather_df.rows[1].latitude # weather_df.rows[Len(weather_df.rows)].latitude
    /\ weather_df.columns[1] = "snapshot_time"

\* C10 as stated: a successful upsert leaves every destination row whose key
\* is not in the batch unchanged, and the row count grows by the number of
\* batch keys that were not present before.
C10_FrameAsStated ==
    Len(history) >= 2 =>
        /\ \A i \in DOMAIN Old : ~KeyIn(Batch, Old[i]) => New[i] = Old[i]
        /\ Len(New) = Len(Old)
              + Cardinality({<<b.latitude, b.longitude, b.snapshot_time>> :
                                b \in {r \in Range(Batch) : ~KeyIn(Old, r)}})

\* C10 amended: the row count grows by the number of batch rows (not of
\* distinct keys) whose key was not present before.
C10_Frame ==
    Len(history) >= 2 =>
        /\ \A i \in DOMAIN Old : ~KeyIn(Batch, Old[i]) => New[i] = Old[i]
        /\ Len(New) = Len(Old)
              + Cardinality({k \in DOMAIN Batch : ~KeyIn(Old, Batch[k])})

C10_Witness ==
    /\ Len(history) >= 2
    /\ \E i \in DOMAIN Old : ~KeyIn(Batch, Old[i]) /\ New[i] = Old[i]
    /\ \E k \in DOMAIN Batch : ~KeyIn(Old, Batch[k])
    /\ \E k \in DOMAIN Batch : \E i \in DOMAIN Old :
          SameKey(Old[i], Batch[k]) /\ Old[i] # Batch[k]
====
